---- MODULE Spec2Model ----
(***************************************************************************)
(* Bookora appointment scheduling and lifecycle engine.                    *)
(*                                                                         *)
(* State: the appointments table, the business table's status column, the  *)
(* wall clock, the SQL dialect the session is bound to, (for the           *)
(* concurrent booking specification) the position of each in-flight book   *)
(* request, and for the periodic tasks the FCM tokens, the notification    *)
(* log and what the FCM service was asked to send and accepted.            *)
(* The response of a handler is an operator of the state and the request   *)
(* (BookCheck, ConfirmCheck, ...); a handler that raises leaves the state  *)
(* as it is, its session being closed without a commit.                    *)
(*                                                                         *)
(* Time is in minutes.  Appointment ids are the row's position in the      *)
(* table (rows are never deleted).                                         *)
(***************************************************************************)
EXTENDS Integers, Sequences, FiniteSets, TLC

-----------------------------------------------------------------------------
(* Bounds of the model *)

MaxAppts == 2          \* rows the appointments table may hold
MaxStartSlot == 1      \* requested start times are FirstStart + 15k, k in 0..MaxStartSlot
MaxLogs == 2           \* rows the notification_logs table may hold
MaxBeats == 8          \* beats of the reminder schedule the clock of the beat specification runs for
MaxCodes == 2          \* confirmation codes random.choices draws from
MaxConns == 2          \* websockets opened in a run

-----------------------------------------------------------------------------
(* Program constants *)

CancelLeadMinutes == 120    \* can_be_cancelled: 2 * 3600 seconds
MissedGraceMinutes == 60    \* mark_missed_appointments: timedelta(hours=1)
SlotMinutes == 15           \* get_available_slots: 15-minute grid
Reminder24hMinutes == 1440  \* check_and_send_reminders: timedelta(hours=24)
Reminder2hMinutes == 120    \* check_and_send_reminders: timedelta(hours=2)
ReminderWindowMinutes == 30 \* check_and_send_reminders: the extra minutes=30 of a window's end
MaxRetries == 3             \* NotificationLog.max_retries default
RetryWindowMinutes == 1440  \* retry_failed_notifications: timedelta(hours=24)
CleanupAgeMinutes == 525600 \* cleanup_expired_appointments: timedelta(days=365)
SweepCadenceMinutes == 5    \* beat_schedule: crontab(minute="*/5")

-----------------------------------------------------------------------------
(* Reference data: the rows of clients, businesses and services *)

\* a nullable column holding no value: strings, timestamps and ids
None == "None"
NoTime == -1
NoId == 0
\* SQL NULL as the result of an expression: the empty set of values
NULL == {}
\* confirmation_code of a row that never had one generated (NULL in the column)
NoCode == 0

Clients == {"c1", "c2"}
Businesses == {"b1", "b2"}
Services == {"s1", "s2", "s3"}
MissingService == "s0"

\* firebase uid -> client row / business row
Users == {"c1", "c2", "o1", "o2"}
ClientOf(u) == IF u \in Clients THEN u ELSE None
BusinessOwnedBy(u) == IF u = "o1" THEN "b1" ELSE IF u = "o2" THEN "b2" ELSE None

ServiceBusiness == [s1 |-> "b1", s2 |-> "b1", s3 |-> "b2"]
ServiceDuration == [s1 |-> 15, s2 |-> 45, s3 |-> 30]
ServicePrice == [s1 |-> 20, s2 |-> 50, s3 |-> 30]

AppointmentStatus ==
  {"pending", "confirmed", "in_progress", "completed", "cancelled", "no_show", "rescheduled"}

BusinessStatus == {"active", "inactive", "pending", "suspended"}

CancellationReasonNames ==
  {"CLIENT_REQUEST", "BUSINESS_REQUEST", "EMERGENCY", "ILLNESS", "WEATHER", "NO_SHOW", "OTHER"}

\* inputs of the requests
StartTimes == {CancelLeadMinutes + SlotMinutes * k : k \in 0..MaxStartSlot}
ReasonInputs == {None, "OTHER", "running late"}
ClockValues == {0, SlotMinutes, CancelLeadMinutes + MissedGraceMinutes + SlotMinutes}
Dialects == {"postgresql", "sqlite", "interpolated"}

\* the clock of the scheduler specification also reaches a time more than the grace
\* period after the end of every appointment booked on StartTimes
LateClockValues ==
  ClockValues \cup {CancelLeadMinutes + SlotMinutes * (MaxStartSlot + 4) + MissedGraceMinutes}

\* the reminder milestones and the start times around their windows: for a sweep at
\* one of ClockValues they lie on the first minute of a window, inside it, on its last
\* minute and on either side of it
Milestones == {"24h", "2h"}
ReminderLead(m) == IF m = "24h" THEN Reminder24hMinutes ELSE Reminder2hMinutes
ReminderStartTimes ==
  {ReminderLead(m) + SlotMinutes * k : m \in Milestones, k \in {0, MaxStartSlot + 1}}

\* the start times of the beat specification: on the beat grid and off it, each 30
\* minutes or a little more after the first minute of a window of the sweep at minute 0
BeatStartTimes ==
  {ReminderLead(m) + ReminderWindowMinutes + r : m \in Milestones, r \in {0, 3}}

-----------------------------------------------------------------------------
VARIABLES appts, business_status, now, dialect, reqs,
          fcm_token,          \* uid -> whether the profile holds an FCM token
          notification_logs,  \* the notification_logs table
          dispatch_calls,     \* the calls of send_appointment_notification: <<appointment, milestone>>
          pushes,             \* the messages FCM accepted: <<recipient, appointment, milestone>>
          connection_manager, \* the global ConnectionManager: its three dictionaries
          websockets          \* the websockets in the order they were opened, with their handlers

notif_vars == <<fcm_token, notification_logs, dispatch_calls, pushes>>

ws_vars == <<connection_manager, websockets>>

vars == <<appts, business_status, now, dialect, reqs, notif_vars, ws_vars>>

Ids == 1..Len(appts)

Requests == {"r1", "r2"}

IdleReq == [pc |-> "idle", caller |-> None, service |-> None, start |-> NoTime]

-----------------------------------------------------------------------------
(* The Appointment row.  Of its columns the model keeps the references,     *)
(* the interval, the price snapshot, the status, the completion stamp and   *)
(* the reschedule lineage, the reminder flags and the confirmation code.  confirmed_at is not a column of the table (the  *)
(* attribute confirm_appointment sets is dropped at commit); the            *)
(* cancellation metadata, the actual duration, notes and ratings are        *)
(* written but never read by the operations modelled here and are left out. *)

NewAppointment(client, business, service, start, duration, price, orig, from) ==
  [client |-> client, business |-> business, service |-> service,
   start |-> start, duration |-> duration, price |-> price,
   status |-> "pending",
   completed_at |-> NoTime,
   original_appointment_id |-> orig, rescheduled_from |-> from,
   reminder_24h_sent |-> FALSE, reminder_2h_sent |-> FALSE,
   confirmation_code |-> NoCode]

\* Appointment.end_time
end_time(a) == a.start + a.duration

\* Appointment.can_be_cancelled
can_be_cancelled(a, t) ==
  IF a.status \in {"completed", "cancelled", "no_show"} THEN FALSE
  ELSE a.start - t > CancelLeadMinutes

\* Appointment.can_be_rescheduled
can_be_rescheduled(a, t) ==
  can_be_cancelled(a, t) /\ a.status \notin {"in_progress"}

-----------------------------------------------------------------------------
(* Conflict query of book_appointment.                                      *)
(*                                                                          *)
(* The end of an existing row is written                                    *)
(*   func.datetime(Appointment.appointment_date,                            *)
(*                 f"+{Appointment.duration_minutes} minutes")              *)
(* The f-string formats the column attribute, not a row's value, so the SQL *)
(* sent is datetime(appointment_date, '+Appointment.duration_minutes        *)
(* minutes').  What that evaluates to depends on the database:              *)
(*   postgresql   : there is no function datetime(); the query raises       *)
(*   sqlite       : the modifier is invalid; datetime() returns NULL        *)
(*   interpolated : the modifier read as '+<duration_minutes> minutes',     *)
(*                  the row's start plus its duration                       *)

SqlDatetime(d, a) ==
  IF d = "interpolated" THEN {a.start + a.duration} ELSE NULL

\* SQL comparisons: a comparison with NULL is not true
SqlGt(x, y) == \E v \in x : v > y
SqlGe(x, y) == \E v \in x : v >= y

\* ConflictFilter with the second branch's strict bound made inclusive
ConflictFilterInclusive(d, a, business, cs, ce) ==
  /\ a.business = business
  /\ a.status \in {"confirmed", "pending"}
  /\ \/ (a.start <= cs /\ SqlGt(SqlDatetime(d, a), cs))
     \/ (a.start <= ce /\ SqlGe(SqlDatetime(d, a), ce))

ConflictFilter(d, a, business, cs, ce) ==
  /\ a.business = business
  /\ a.status \in {"confirmed", "pending"}
  /\ \/ (a.start <= cs /\ SqlGt(SqlDatetime(d, a), cs))
     \/ (a.start < ce /\ SqlGe(SqlDatetime(d, a), ce))

Conflicts(rows, d, business, cs, ce) ==
  {i \in 1..Len(rows) : ConflictFilter(d, rows[i], business, cs, ce)}

\* BookCheck with the business gate refusing only inactive and suspended businesses
BookCheckOpenToPending(rows, bstatus, d, u, s, t) ==
  IF ClientOf(u) = None THEN "Client profile not found"
  ELSE IF s \notin Services THEN "Service not found"
  ELSE IF bstatus[ServiceBusiness[s]] \in {"inactive", "suspended"}
       THEN "Business is not accepting appointments"
  ELSE IF d = "postgresql" THEN "Internal Server Error"
  ELSE IF Conflicts(rows, d, ServiceBusiness[s], t, t + ServiceDuration[s]) # {}
       THEN "Time slot not available"
  ELSE "ok"

\* book_appointment up to and including the conflict query: the error it
\* raises, or "ok" when the appointment is to be created
BookCheck(rows, bstatus, d, u, s, t) ==
  IF ClientOf(u) = None THEN "Client profile not found"
  ELSE IF s \notin Services THEN "Service not found"
  ELSE IF bstatus[ServiceBusiness[s]] # "active"
       THEN "Business is not accepting appointments"
  ELSE IF d = "postgresql" THEN "Internal Server Error"
  ELSE IF Conflicts(rows, d, ServiceBusiness[s], t, t + ServiceDuration[s]) # {}
       THEN "Time slot not available"
  ELSE "ok"

\* the row book_appointment inserts
BookedRow(u, s, t) ==
  NewAppointment(ClientOf(u), ServiceBusiness[s], s, t, ServiceDuration[s],
                 ServicePrice[s], NoId, NoTime)

\* a dictionary without keys
EmptyDict == [k \in {} |-> {}]
Put(f, k, v) == [x \in DOMAIN f \cup {k} |-> IF x = k THEN v ELSE f[x]]
Remove(f, k) == [x \in DOMAIN f \ {k} |-> f[x]]
Get(f, k) == IF k \in DOMAIN f THEN f[k] ELSE {}

\* ConnectionManager.__init__
NewConnectionManager ==
  [active_connections |-> EmptyDict, user_rooms |-> EmptyDict, room_members |-> EmptyDict]

-----------------------------------------------------------------------------
Init ==
  /\ appts = <<>>
  /\ business_status \in {f \in [Businesses -> {"active", "pending"}] : f["b1"] = "active"}
  /\ now = 0
  /\ dialect \in Dialects
  /\ reqs = [r \in Requests |-> IdleReq]
  /\ fcm_token = [u \in Users |-> FALSE]
  /\ notification_logs = <<>>
  /\ dispatch_calls = <<>>
  /\ pushes = <<>>
  /\ connection_manager = NewConnectionManager
  /\ websockets = <<>>

\* the codes random.choices draws in the specification of the confirmation codes, and
\* a draw that no row holds
Codes == 1..MaxCodes
FreshCode(rows) == Len(rows) + 1

\* Appointment.generate_confirmation_code, code being the draw of random.choices
generate_confirmation_code(a, code) == [a EXCEPT !.confirmation_code = code]

\* book_appointment to its end: the commit violates the unique constraint of
\* confirmation_code when a row holds the code drawn, and the handler catches nothing
BookCodeCheck(rows, bstatus, d, u, s, t, code) ==
  IF BookCheck(rows, bstatus, d, u, s, t) # "ok" THEN BookCheck(rows, bstatus, d, u, s, t)
  ELSE IF \E i \in 1..Len(rows) : rows[i].confirmation_code = code
       THEN "Internal Server Error"
  ELSE "ok"

\* POST /book, run without interleaving, random.choices drawing code
BookCode(u, s, t, code) ==
  /\ \A r \in Requests : reqs[r].pc = "idle"
  /\ IF BookCodeCheck(appts, business_status, dialect, u, s, t, code) = "ok"
     THEN /\ Len(appts) < MaxAppts
          /\ appts' = Append(appts, generate_confirmation_code(BookedRow(u, s, t), code))
     ELSE appts' = appts
  /\ UNCHANGED <<business_status, now, dialect, reqs>>
  /\ UNCHANGED ws_vars
  /\ UNCHANGED notif_vars

\* POST /book, run without interleaving, the code drawn being one that no row holds
Book(u, s, t) == BookCode(u, s, t, FreshCode(appts))

\* POST /book as two steps of request r: the reads up to the conflict query,
\* then db.add and db.commit.  Nothing is locked between the two.
BookQuery(r, u, s, t) ==
  /\ reqs[r].pc = "idle"
  /\ IF BookCheck(appts, business_status, dialect, u, s, t) = "ok"
     THEN /\ Len(appts) + Cardinality({q \in Requests : reqs[q].pc = "checked"}) < MaxAppts
          /\ reqs' = [reqs EXCEPT ![r] =
                        [pc |-> "checked", caller |-> u, service |-> s, start |-> t]]
     ELSE reqs' = reqs
  /\ UNCHANGED <<appts, business_status, now, dialect>>
  /\ UNCHANGED ws_vars
  /\ UNCHANGED notif_vars

BookCommit(r) ==
  /\ reqs[r].pc = "checked"
  /\ appts' = Append(appts, generate_confirmation_code(
                              BookedRow(reqs[r].caller, reqs[r].service, reqs[r].start),
                              FreshCode(appts)))
  /\ reqs' = [reqs EXCEPT ![r] = IdleReq]
  /\ UNCHANGED <<business_status, now, dialect>>
  /\ UNCHANGED ws_vars
  /\ UNCHANGED notif_vars

\* ConfirmCheck with the status guard testing for the wrong status
ConfirmCheckWrongGuard(rows, u, id) ==
  IF id \notin 1..Len(rows) THEN "Appointment not found"
  ELSE IF BusinessOwnedBy(u) = None \/ rows[id].business # BusinessOwnedBy(u)
       THEN "Only the business can confirm appointments"
  ELSE IF rows[id].status = "confirmed"
       THEN "Only pending appointments can be confirmed"
  ELSE "ok"

\* PUT /{appointment_id}/confirm: the error it raises, or "ok"
ConfirmCheck(rows, u, id) ==
  IF id \notin 1..Len(rows) THEN "Appointment not found"
  ELSE IF BusinessOwnedBy(u) = None \/ rows[id].business # BusinessOwnedBy(u)
       THEN "Only the business can confirm appointments"
  ELSE IF rows[id].status # "pending"
       THEN "Only pending appointments can be confirmed"
  ELSE "ok"

Confirm(u, id) ==
  /\ IF ConfirmCheck(appts, u, id) = "ok"
     THEN appts' = [appts EXCEPT ![id].status = "confirmed"]
     ELSE appts' = appts
  /\ UNCHANGED <<business_status, now, dialect, reqs>>
  /\ UNCHANGED ws_vars
  /\ UNCHANGED notif_vars

\* PUT /{appointment_id}/cancel: the error it raises, or "ok"
CancelCheck(rows, u, id, reason) ==
  IF id \notin 1..Len(rows) THEN "Appointment not found"
  ELSE IF ~ \/ (ClientOf(u) # None /\ rows[id].client = ClientOf(u))
            \/ (BusinessOwnedBy(u) # None /\ rows[id].business = BusinessOwnedBy(u))
       THEN "Access denied to this appointment"
  ELSE IF rows[id].status \in {"completed", "cancelled"}
       THEN "Cannot cancel completed or already cancelled appointment"
  \* the commit rejects a reason that is not a label of the enum column
  ELSE IF reason # None /\ reason \notin CancellationReasonNames
       THEN "Internal Server Error"
  ELSE "ok"

Cancel(u, id, reason) ==
  /\ IF CancelCheck(appts, u, id, reason) = "ok"
     THEN appts' = [appts EXCEPT ![id].status = "cancelled"]
     ELSE appts' = appts
  /\ UNCHANGED <<business_status, now, dialect, reqs>>
  /\ UNCHANGED ws_vars
  /\ UNCHANGED notif_vars

\* PUT /{appointment_id}/complete: the error it raises, or "ok"
CompleteCheck(rows, u, id) ==
  IF id \notin 1..Len(rows) THEN "Appointment not found"
  ELSE IF BusinessOwnedBy(u) = None \/ rows[id].business # BusinessOwnedBy(u)
       THEN "Only the business can complete appointments"
  ELSE IF rows[id].status # "confirmed"
       THEN "Only confirmed appointments can be completed"
  ELSE "ok"

Complete(u, id) ==
  /\ IF CompleteCheck(appts, u, id) = "ok"
     THEN appts' = [appts EXCEPT ![id].status = "completed",
                                 ![id].completed_at = now]
     ELSE appts' = appts
  /\ UNCHANGED <<business_status, now, dialect, reqs>>
  /\ UNCHANGED ws_vars
  /\ UNCHANGED notif_vars

\* mark_missed_appointments: the periodic task
MissedFilter(a, t) ==
  a.start < t - MissedGraceMinutes /\ a.status = "confirmed"

MarkMissed ==
  /\ appts' = [i \in Ids |->
                 IF MissedFilter(appts[i], now)
                 THEN [appts[i] EXCEPT !.status = "cancelled"]
                 ELSE appts[i]]
  /\ UNCHANGED <<business_status, now, dialect, reqs>>
  /\ UNCHANGED ws_vars
  /\ UNCHANGED notif_vars

\* the wall clock moves on
Tick ==
  /\ \E t \in ClockValues : t > now /\ now' = t
  /\ UNCHANGED <<appts, business_status, dialect, reqs>>
  /\ UNCHANGED ws_vars
  /\ UNCHANGED notif_vars

\* the wall clock of the scheduler specification
TickLate ==
  /\ \E t \in LateClockValues : t > now /\ now' = t
  /\ UNCHANGED <<appts, business_status, dialect, reqs>>
  /\ UNCHANGED ws_vars
  /\ UNCHANGED notif_vars

\* the attributes an Appointment object has: the columns of the class and of BaseModel,
\* the relationships, the properties and the methods
AppointmentAttributes ==
  {"id", "created_at", "updated_at", "is_deleted",
   "client_id", "business_id", "service_id", "appointment_date", "duration_minutes",
   "status", "confirmation_code", "service_price", "deposit_amount", "total_amount",
   "client_notes", "client_phone_override", "business_notes", "assigned_staff",
   "cancelled_at", "cancellation_reason", "cancellation_notes", "cancelled_by_client",
   "original_appointment_id", "rescheduled_from", "completed_at", "actual_duration",
   "client_rating", "client_review", "business_rating", "business_review",
   "reminder_24h_sent", "reminder_2h_sent", "confirmation_sent",
   "client", "business", "service", "original_appointment", "rescheduled_appointments",
   "end_time", "is_upcoming", "is_today", "can_be_cancelled", "can_be_rescheduled",
   "time_until_appointment", "generate_confirmation_code", "mark_completed", "cancel",
   "reschedule"}

\* the filter of the query of cleanup_expired_appointments
CleanupFilter(a, t) ==
  a.start < t - CleanupAgeMinutes /\ a.status \in {"completed", "cancelled"}

\* the rows after the loop of cleanup_expired_appointments: a selected row is written
\* only if hasattr(appointment, 'is_active'), and then only its is_active
CleanupResult(rows, t) ==
  [i \in 1..Len(rows) |->
     IF CleanupFilter(rows[i], t) /\ "is_active" \in AppointmentAttributes
     THEN [rows[i] EXCEPT !.is_active = FALSE]
     ELSE rows[i]]

\* cleanup_expired_appointments: the daily task
cleanup_expired_appointments ==
  /\ appts' = CleanupResult(appts, now)
  /\ UNCHANGED <<business_status, now, dialect, reqs>>
  /\ UNCHANGED ws_vars
  /\ UNCHANGED notif_vars

-----------------------------------------------------------------------------
(* The methods of the Appointment model, called on a loaded row and         *)
(* committed by the caller.                                                 *)

\* Appointment.mark_completed
mark_completed(id) ==
  /\ id \in Ids
  /\ appts' = [appts EXCEPT ![id].status = "completed",
                            ![id].completed_at = now]
  /\ UNCHANGED <<business_status, now, dialect, reqs>>
  /\ UNCHANGED ws_vars
  /\ UNCHANGED notif_vars

\* Appointment.cancel
cancel(id) ==
  /\ id \in Ids
  /\ appts' = [appts EXCEPT ![id].status = "cancelled"]
  /\ UNCHANGED <<business_status, now, dialect, reqs>>
  /\ UNCHANGED ws_vars
  /\ UNCHANGED notif_vars

\* RescheduledRow reading the old start after the new one was assigned
RescheduledRowStaleFrom(a, id, new_datetime) ==
  NewAppointment(a.client, a.business, a.service, new_datetime, a.duration,
                 a.price, id, new_datetime)

\* the row Appointment.reschedule returns
RescheduledRow(a, id, new_datetime) ==
  NewAppointment(a.client, a.business, a.service, new_datetime, a.duration,
                 a.price, id, a.start)

\* the table after Appointment.reschedule on row id and the commit of the returned row:
\* the method has no refusal path
RescheduleResult(rows, id, new_datetime) ==
  Append([rows EXCEPT ![id].status = "rescheduled"],
         RescheduledRow(rows[id], id, new_datetime))

\* Appointment.reschedule
reschedule(id, new_datetime) ==
  /\ id \in Ids
  /\ Len(appts) < MaxAppts
  /\ appts' = RescheduleResult(appts, id, new_datetime)
  /\ UNCHANGED <<business_status, now, dialect, reqs>>
  /\ UNCHANGED ws_vars
  /\ UNCHANGED notif_vars

-----------------------------------------------------------------------------
(* GET /business/{business_id}/available-slots, for one date: every         *)
(* appointment of the model is on that date.                                *)

\* the attributes the mapped classes declare (their columns and those of BaseModel)
BusinessHoursAttributes ==
  {"id", "created_at", "updated_at", "business_id", "day_of_week", "is_closed",
   "open_time", "close_time", "break_start", "break_end"}

\* the business_hours rows of the date's weekday: b1 is open with a break, b2 has no row
BusinessHoursRows ==
  [b \in Businesses |->
     IF b = "b1"
     THEN {[open_time |-> 105, close_time |-> 180, break_start |-> 135, break_end |-> 150]}
     ELSE {}]

SlotsError(detail) == [error |-> detail, slots |-> <<>>]

\* the while loop of get_available_slots from cursor current_time on: the start times it
\* appends.  A row ends at its start plus the duration the loop reads for it.
RECURSIVE SlotScan(_, _, _, _)
SlotScan(existing, current_time, close_time, duration) ==
  IF current_time + duration > close_time THEN <<>>
  ELSE LET slot_end == current_time + duration
           is_available ==
             \A a \in existing : ~(current_time < a.start + a.duration /\ slot_end > a.start)
       IN (IF is_available THEN <<current_time>> ELSE <<>>)
            \o SlotScan(existing, current_time + SlotMinutes, close_time, duration)

\* get_available_slots: the error it answers with, or the slots.  The business hours
\* query names BusinessHours.is_open, an attribute the class does not declare:
\* building the filter raises AttributeError.  The loop reads
\* appointment.service_duration, which Appointment does not declare either.
get_available_slots(rows, b, s) ==
  IF b \notin Businesses THEN SlotsError("Business not found")
  ELSE IF s \notin Services \/ ServiceBusiness[s] # b THEN SlotsError("Service not found")
  ELSE IF "is_open" \notin BusinessHoursAttributes THEN SlotsError("Internal Server Error")
  ELSE IF BusinessHoursRows[b] = {} THEN [error |-> None, slots |-> <<>>]
  ELSE LET business_hours == CHOOSE h \in BusinessHoursRows[b] : TRUE
           existing == {rows[i] : i \in {k \in 1..Len(rows) :
                          rows[k].business = b /\ rows[k].status \in {"pending", "confirmed"}}}
       IN IF existing # {}
             /\ business_hours.open_time + ServiceDuration[s] <= business_hours.close_time
          THEN SlotsError("Internal Server Error")
          ELSE [error |-> None,
                slots |-> SlotScan(existing, business_hours.open_time,
                                   business_hours.close_time, ServiceDuration[s])]

-----------------------------------------------------------------------------
(* The reminder sweep, the retry of failed notifications and the FCM token  *)
(* endpoint.  Each task runs as one step: a worker runs it start to end.    *)

\* POST /fcm-token: the caller's client profile, else business profile, gets the token
update_fcm_token(u) ==
  /\ ClientOf(u) # None \/ BusinessOwnedBy(u) # None
  /\ fcm_token' = [fcm_token EXCEPT ![u] = TRUE]
  /\ UNCHANGED <<appts, business_status, now, dialect, reqs>>
  /\ UNCHANGED ws_vars
  /\ UNCHANGED <<notification_logs, dispatch_calls, pushes>>

\* the uid of the business row
BusinessUid(b) == IF b = "b1" THEN "o1" ELSE "o2"

ReminderSent(a, m) == IF m = "24h" THEN a.reminder_24h_sent ELSE a.reminder_2h_sent

\* SetReminderSent moving the appointment on to in_progress as well
SetReminderSentInProgress(a, m) ==
  IF m = "24h" THEN [a EXCEPT !.reminder_24h_sent = TRUE]
  ELSE [a EXCEPT !.reminder_2h_sent = TRUE, !.status = "in_progress"]

\* SetReminderSent setting the flag of the other milestone
SetReminderSentSwapped(a, m) ==
  IF m = "24h" THEN [a EXCEPT !.reminder_2h_sent = TRUE]
  ELSE [a EXCEPT !.reminder_24h_sent = TRUE]

\* appointment.reminder_24h_sent = True / appointment.reminder_2h_sent = True
SetReminderSent(a, m) ==
  IF m = "24h" THEN [a EXCEPT !.reminder_24h_sent = TRUE]
  ELSE [a EXCEPT !.reminder_2h_sent = TRUE]

\* ReminderFilter with a window shorter than the 5 minutes between two sweeps
ReminderFilterShortWindow(a, m, t) ==
  /\ a.start >= t + ReminderLead(m)
  /\ a.start < t + ReminderLead(m) + SweepCadenceMinutes - 2
  /\ a.status = "confirmed"
  /\ ~ReminderSent(a, m)

\* ReminderFilter without the test of the status
ReminderFilterAnyStatus(a, m, t) ==
  /\ a.start >= t + ReminderLead(m)
  /\ a.start <= t + ReminderLead(m) + ReminderWindowMinutes
  /\ ~ReminderSent(a, m)

\* the filter of the two queries of check_and_send_reminders: both ends of the window inclusive
ReminderFilter(a, m, t) ==
  /\ a.start >= t + ReminderLead(m)
  /\ a.start <= t + ReminderLead(m) + ReminderWindowMinutes
  /\ a.status = "confirmed"
  /\ ~ReminderSent(a, m)

\* Python truth of a value: False and None are falsy, any other object is truthy
Truthy(v) == v \notin {"False", None}

\* notification_sent of send_reminder_notification.  send_appointment_notification is a
\* coroutine function and is called without await: the call returns a coroutine
\* object, its body never runs and no request reaches FCM.
NotificationSent(tokens, a) ==
  IF tokens[a.client] THEN "coroutine" ELSE "False"

\* the NotificationLog row send_reminder_notification inserts
ReminderLog(i, m, sent, t) ==
  [appointment |-> i, event |-> m,
   status |-> IF Truthy(sent) THEN "sent" ELSE "failed",
   retry_count |-> 0, created_at |-> t]

\* how a call of send_reminder_notification ends: it returns; or the dispatch raises and
\* the except clause around it leaves notification_sent False; or its body raises before
\* the log row is added and its outer except clause answers False
Outcomes == {"returns", "dispatch raises", "body raises"}

\* one turn of a loop of check_and_send_reminders on appointment i: the call of
\* send_reminder_notification, then the flag if the value returned is truthy
SendReminderOutcome(st, tokens, i, m, t, outcome) ==
  IF outcome = "body raises" THEN st
  ELSE LET sent == IF outcome = "dispatch raises" THEN "False"
                   ELSE NotificationSent(tokens, st.rows[i])
       IN [rows |-> IF Truthy(sent)
                    THEN [st.rows EXCEPT ![i] = SetReminderSent(st.rows[i], m)]
                    ELSE st.rows,
           logs |-> Append(st.logs, ReminderLog(i, m, sent, t)),
           calls |-> IF tokens[st.rows[i].client]
                     THEN Append(st.calls, <<i, m>>)
                     ELSE st.calls]

\* the turn when nothing raises
SendReminder(st, tokens, i, m, t) == SendReminderOutcome(st, tokens, i, m, t, "returns")

\* how many times x is in the sequence q
Count(q, x) == Cardinality({k \in 1..Len(q) : q[k] = x})

\* the loop with every turn after the first failed one left out
RECURSIVE SendRemindersStopOnFailure(_, _, _, _, _, _)
SendRemindersStopOnFailure(st, tokens, ids, m, t, outcome) ==
  IF ids = {} THEN st
  ELSE LET i == CHOOSE x \in ids : \A y \in ids : x <= y
           turn == SendReminderOutcome(st, tokens, i, m, t, outcome[<<i, m>>])
       IN IF ReminderSent(turn.rows[i], m)
          THEN SendRemindersStopOnFailure(turn, tokens, ids \ {i}, m, t, outcome)
          ELSE turn

\* a loop of check_and_send_reminders over the appointments its query selected, each
\* turn inside its own try: outcome[<<i, m>>] is how the call for appointment i ends
RECURSIVE SendRemindersOutcome(_, _, _, _, _, _)
SendRemindersOutcome(st, tokens, ids, m, t, outcome) ==
  IF ids = {} THEN st
  ELSE LET i == CHOOSE x \in ids : \A y \in ids : x <= y
       IN SendRemindersOutcome(SendReminderOutcome(st, tokens, i, m, t, outcome[<<i, m>>]),
                               tokens, ids \ {i}, m, t, outcome)

\* check_and_send_reminders: the 24h query and loop, then the 2h query and loop
SweepResultOutcome(st, tokens, t, outcome) ==
  LET st24 == SendRemindersOutcome(st, tokens,
                {i \in 1..Len(st.rows) : ReminderFilter(st.rows[i], "24h", t)},
                "24h", t, outcome)
  IN SendRemindersOutcome(st24, tokens,
                {i \in 1..Len(st24.rows) : ReminderFilter(st24.rows[i], "2h", t)},
                "2h", t, outcome)

\* every call returns
AllReturn == [p \in (1..MaxAppts) \X Milestones |-> "returns"]

\* the loop and the sweep when nothing raises
SendReminders(st, tokens, ids, m, t) == SendRemindersOutcome(st, tokens, ids, m, t, AllReturn)

SweepResult(st, tokens, t) == SweepResultOutcome(st, tokens, t, AllReturn)

SweepState == [rows |-> appts, logs |-> notification_logs, calls |-> dispatch_calls]

check_and_send_reminders ==
  LET st == SweepResult(SweepState, fcm_token, now)
  IN /\ Len(st.logs) <= MaxLogs
     /\ appts' = st.rows
     /\ notification_logs' = st.logs
     /\ dispatch_calls' = st.calls
     /\ UNCHANGED <<business_status, now, dialect, reqs, fcm_token, pushes>>
     /\ UNCHANGED ws_vars

\* the beat of check-appointment-reminders: the clock reaches the next multiple of
\* 5 minutes and a worker runs check_and_send_reminders at that time
Beat ==
  LET t == now + SweepCadenceMinutes
      st == SweepResult(SweepState, fcm_token, t)
  IN /\ t <= SweepCadenceMinutes * MaxBeats
     /\ now' = t
     /\ appts' = st.rows
     /\ notification_logs' = st.logs
     /\ dispatch_calls' = st.calls
     /\ UNCHANGED <<business_status, dialect, reqs, fcm_token, pushes>>
     /\ UNCHANGED ws_vars

\* the sequences of qs, one after the other
RECURSIVE Concat(_)
Concat(qs) == IF qs = <<>> THEN <<>> ELSE Head(qs) \o Concat(Tail(qs))

\* RetryFilter without the test of retry_count against max_retries
RetryFilterNoBound(l, t) ==
  /\ l.status = "failed"
  /\ l.created_at >= t - RetryWindowMinutes

\* the filter of the query of retry_failed_notifications
RetryFilter(l, t) ==
  /\ l.status = "failed"
  /\ l.retry_count < MaxRetries
  /\ l.created_at >= t - RetryWindowMinutes

\* await_retry_push_notification: whose token the message goes to, the client's, else
\* the business's, else none
RetryRecipient(tokens, rows, l) ==
  IF tokens[rows[l.appointment].client] THEN "client"
  ELSE IF tokens[BusinessUid(rows[l.appointment].business)] THEN "business"
  ELSE None

\* retry_failed_notifications; fcm_ok[k] is the answer of FCM to the message of log k
retry_failed_notifications ==
  \E fcm_ok \in [1..MaxLogs -> BOOLEAN] :
    LET retried == {k \in 1..Len(notification_logs) : RetryFilter(notification_logs[k], now)}
        success(k) == RetryRecipient(fcm_token, appts, notification_logs[k]) # None /\ fcm_ok[k]
        accepted == [k \in 1..Len(notification_logs) |->
                       IF k \in retried /\ success(k)
                       THEN <<<<RetryRecipient(fcm_token, appts, notification_logs[k]),
                                notification_logs[k].appointment,
                                notification_logs[k].event>>>>
                       ELSE <<>>]
    IN /\ retried # {}
       /\ \A k \in (1..MaxLogs) \ retried : fcm_ok[k]
       /\ notification_logs' =
            [k \in 1..Len(notification_logs) |->
               IF k \in retried
               THEN [notification_logs[k] EXCEPT
                       !.retry_count = @ + 1,
                       !.status = IF success(k) THEN "sent" ELSE @]
               ELSE notification_logs[k]]
       /\ pushes' = pushes \o Concat(accepted)
       /\ UNCHANGED <<appts, business_status, now, dialect, reqs, fcm_token, dispatch_calls>>
       /\ UNCHANGED ws_vars

-----------------------------------------------------------------------------
(* The chat websocket: ConnectionManager and websocket_endpoint.  The       *)
(* handlers are coroutines of one event loop: code between two awaits that  *)
(* suspend runs without interruption, and every update of the three maps of *)
(* the manager lies in such a stretch.  A handler's turn (its start up to   *)
(* the receive loop, one received frame) is one step; send_text on a socket *)
(* succeeds while the socket is open and raises once either side closed it. *)

\* the uids a websocket is opened for: a client, a business owner, and a uid with no
\* client and no business row
UnknownUid == "x1"
WsUids == {"c1", "o1", UnknownUid}

\* the chat_rooms table: one room between client c1 and business b1; r2 is the id of no row
ChatRooms == {[id |-> "r1", client |-> "c1", business |-> "b1"]}
RoomIds == {"r1", "r2"}

\* leave_room leaving a room without members in room_members
leave_room_keep_empty(cm, firebase_uid, room_id) ==
  [cm EXCEPT
     !.user_rooms = IF firebase_uid \in DOMAIN @
                    THEN Put(@, firebase_uid, @[firebase_uid] \ {room_id}) ELSE @,
     !.room_members = IF room_id \in DOMAIN @
                      THEN Put(@, room_id, @[room_id] \ {firebase_uid}) ELSE @]

\* ConnectionManager.leave_room
leave_room(cm, firebase_uid, room_id) ==
  [cm EXCEPT
     !.user_rooms = IF firebase_uid \in DOMAIN @
                    THEN Put(@, firebase_uid, @[firebase_uid] \ {room_id}) ELSE @,
     !.room_members = IF room_id \in DOMAIN @
                      THEN IF @[room_id] \ {firebase_uid} = {}
                           THEN Remove(@, room_id)
                           ELSE Put(@, room_id, @[room_id] \ {firebase_uid})
                      ELSE @]

\* the loop of disconnect over a copy of the user's rooms
RECURSIVE LeaveRooms(_, _, _)
LeaveRooms(cm, firebase_uid, rooms) ==
  IF rooms = {} THEN cm
  ELSE LET room_id == CHOOSE r \in rooms : TRUE
       IN LeaveRooms(leave_room(cm, firebase_uid, room_id), firebase_uid, rooms \ {room_id})

\* ConnectionManager.disconnect: the entry of the uid goes, whichever websocket it holds
disconnect(cm, firebase_uid) ==
  LET unregistered == [cm EXCEPT !.active_connections = Remove(@, firebase_uid)]
      left == LeaveRooms(unregistered, firebase_uid, Get(unregistered.user_rooms, firebase_uid))
  IN [left EXCEPT !.user_rooms = Remove(@, firebase_uid)]

\* ConnectionManager.send_personal_message: the manager afterwards and the value returned
send_personal_message(cm, ws, firebase_uid) ==
  IF firebase_uid \notin DOMAIN cm.active_connections THEN [cm |-> cm, ok |-> FALSE]
  ELSE IF ws[cm.active_connections[firebase_uid]].socket = "open" THEN [cm |-> cm, ok |-> TRUE]
  ELSE [cm |-> disconnect(cm, firebase_uid), ok |-> FALSE]

\* ConnectionManager.join_room
join_room(cm, ws, firebase_uid, room_id) ==
  LET joined ==
        [cm EXCEPT
           !.user_rooms = Put(@, firebase_uid, Get(@, firebase_uid) \cup {room_id}),
           !.room_members = Put(@, room_id, Get(@, room_id) \cup {firebase_uid})]
  IN send_personal_message(joined, ws, firebase_uid).cm

\* ConnectionManager.connect for websocket c
connect(cm, ws, c, firebase_uid) ==
  LET registered ==
        [cm EXCEPT
           !.active_connections = Put(@, firebase_uid, c),
           !.user_rooms = IF firebase_uid \in DOMAIN @ THEN @ ELSE Put(@, firebase_uid, {})]
  IN send_personal_message(registered, ws, firebase_uid).cm

\* the loop of broadcast_to_room over a copy of the room's members
RECURSIVE SendEach(_, _, _)
SendEach(cm, ws, members) ==
  IF members = {} THEN cm
  ELSE LET firebase_uid == CHOOSE u \in members : TRUE
       IN SendEach(send_personal_message(cm, ws, firebase_uid).cm, ws, members \ {firebase_uid})

\* ConnectionManager.broadcast_to_room
broadcast_to_room(cm, ws, room_id, exclude_user) ==
  IF room_id \notin DOMAIN cm.room_members THEN cm
  ELSE SendEach(cm, ws, cm.room_members[room_id] \ {exclude_user})

\* ConnectionManager.send_chat_message
send_chat_message(cm, ws, room_id, sender_uid) ==
  send_personal_message(broadcast_to_room(cm, ws, room_id, sender_uid), ws, sender_uid).cm

\* ConnectionManager.send_typing_indicator
send_typing_indicator(cm, ws, room_id, sender_uid) ==
  broadcast_to_room(cm, ws, room_id, sender_uid)

\* the chat rooms websocket_endpoint joins for a user: those of the client row, else
\* those of the business row
ChatRoomsOf(firebase_uid) ==
  IF ClientOf(firebase_uid) # None
  THEN {room.id : room \in {x \in ChatRooms : x.client = ClientOf(firebase_uid)}}
  ELSE {room.id : room \in {x \in ChatRooms : x.business = BusinessOwnedBy(firebase_uid)}}

\* the loop of websocket_endpoint over the user's chat rooms
RECURSIVE JoinRooms(_, _, _, _)
JoinRooms(cm, ws, firebase_uid, rooms) ==
  IF rooms = {} THEN cm
  ELSE LET room_id == CHOOSE r \in rooms : TRUE
       IN JoinRooms(join_room(cm, ws, firebase_uid, room_id), ws, firebase_uid,
                    rooms \ {room_id})

\* handle_send_message: a room that does not exist or is not the user's is answered with
\* an error message to the sender, else the message goes to the room
handle_send_message(cm, ws, firebase_uid, room_id) ==
  IF room_id \in ChatRoomsOf(firebase_uid)
  THEN send_chat_message(cm, ws, room_id, firebase_uid)
  ELSE send_personal_message(cm, ws, firebase_uid).cm

\* handle_mark_read
handle_mark_read(cm, ws, firebase_uid, room_id) ==
  IF room_id \in {room.id : room \in ChatRooms}
  THEN send_personal_message(cm, ws, firebase_uid).cm
  ELSE cm

\* the frames a client sends: the five message types with a room id, an object of
\* another type, text that is not JSON, and JSON that is not an object
MessageTypes == {"send_message", "join_room", "leave_room", "typing", "mark_read"}
Frames ==
  [type : MessageTypes, room_id : RoomIds]
    \cup {[type |-> "other", room_id |-> None], [type |-> "invalid_json", room_id |-> None],
          [type |-> "not_an_object", room_id |-> None]}

\* handle_websocket_message, and the JSONDecodeError branch of the receive loop
handle_websocket_message(cm, ws, firebase_uid, message_data) ==
  IF message_data.type = "send_message"
  THEN handle_send_message(cm, ws, firebase_uid, message_data.room_id)
  ELSE IF message_data.type = "join_room"
  THEN join_room(cm, ws, firebase_uid, message_data.room_id)
  ELSE IF message_data.type = "leave_room"
  THEN leave_room(cm, firebase_uid, message_data.room_id)
  ELSE IF message_data.type = "typing"
  THEN send_typing_indicator(cm, ws, message_data.room_id, firebase_uid)
  ELSE IF message_data.type = "mark_read"
  THEN handle_mark_read(cm, ws, firebase_uid, message_data.room_id)
  ELSE send_personal_message(cm, ws, firebase_uid).cm

\* websocket_endpoint from its start to the receive loop, for the next websocket:
\* connect, the user lookup, and either the close with code 4004 and the return, or
\* the join of the user's chat rooms
websocket_endpoint(firebase_uid) ==
  LET c == Len(websockets) + 1
      accepted == Append(websockets,
                         [uid |-> firebase_uid, socket |-> "open", phase |-> "listening"])
      connected == connect(connection_manager, accepted, c, firebase_uid)
      user == ClientOf(firebase_uid) # None \/ BusinessOwnedBy(firebase_uid) # None
  IN /\ Len(websockets) < MaxConns
     /\ IF ~user
        THEN /\ connection_manager' = connected
             /\ websockets' = [accepted EXCEPT ![c].socket = "server_closed",
                                               ![c].phase = "ended"]
        ELSE /\ connection_manager' =
                  JoinRooms(connected, accepted, firebase_uid, ChatRoomsOf(firebase_uid))
             /\ websockets' = accepted
     /\ UNCHANGED <<appts, business_status, now, dialect, reqs>>
     /\ UNCHANGED notif_vars

\* one turn of the receive loop of websocket c: a frame arrives and is handled.  A frame
\* that is JSON but no object raises AttributeError at message_data.get: the handler
\* leaves the loop through except Exception, disconnects the uid and ends
receive_text(c, message_data) ==
  /\ c \in 1..Len(websockets)
  /\ websockets[c].phase = "listening"
  /\ websockets[c].socket = "open"
  /\ IF message_data.type = "not_an_object"
     THEN /\ connection_manager' = disconnect(connection_manager, websockets[c].uid)
          /\ websockets' = [websockets EXCEPT ![c].socket = "server_closed",
                                               ![c].phase = "ended"]
     ELSE /\ connection_manager' =
               handle_websocket_message(connection_manager, websockets,
                                        websockets[c].uid, message_data)
          /\ UNCHANGED websockets
  /\ UNCHANGED <<appts, business_status, now, dialect, reqs>>
  /\ UNCHANGED notif_vars

\* the client of websocket c goes away
ClientClose(c) ==
  /\ c \in 1..Len(websockets)
  /\ websockets[c].socket = "open"
  /\ websockets' = [websockets EXCEPT ![c].socket = "client_closed"]
  /\ UNCHANGED connection_manager
  /\ UNCHANGED <<appts, business_status, now, dialect, reqs>>
  /\ UNCHANGED notif_vars

\* receive_text of websocket c raises WebSocketDisconnect: the handler disconnects the
\* uid and ends
WebSocketDisconnect(c) ==
  /\ c \in 1..Len(websockets)
  /\ websockets[c].phase = "listening"
  /\ websockets[c].socket = "client_closed"
  /\ connection_manager' = disconnect(connection_manager, websockets[c].uid)
  /\ websockets' = [websockets EXCEPT ![c].phase = "ended"]
  /\ UNCHANGED <<appts, business_status, now, dialect, reqs>>
  /\ UNCHANGED notif_vars

-----------------------------------------------------------------------------
(* Specifications *)

\* the callers that book: a client, and a uid without a client profile
BookCallers == {"c1", "o1"}
BookInputs == BookCallers \X (Services \cup {MissingService}) \X StartTimes

\* the four endpoints, one request at a time
NextApi ==
  \/ \E b \in BookInputs : Book(b[1], b[2], b[3])
  \/ \E u \in Users, id \in 1..MaxAppts : Confirm(u, id)
  \/ \E u \in Users, id \in 1..MaxAppts, reason \in ReasonInputs : Cancel(u, id, reason)
  \/ \E u \in Users, id \in 1..MaxAppts : Complete(u, id)

SpecApi == Init /\ [][NextApi]_vars

\* the endpoints and the model's methods, the clock standing still
NextLifecycle ==
  \/ NextApi
  \/ \E id \in 1..MaxAppts : mark_completed(id)
  \/ \E id \in 1..MaxAppts : cancel(id)
  \/ \E id \in 1..MaxAppts, t \in StartTimes : reschedule(id, t)

SpecLifecycle == Init /\ [][NextLifecycle]_vars

\* the endpoints, the model's methods, the periodic task and the clock
Next ==
  \/ NextLifecycle
  \/ MarkMissed
  \/ Tick

Spec == Init /\ [][Next]_vars

\* the reminder sweep: a client books, the business confirms, the client registers a
\* token, the clock moves and the sweep runs
NextReminders ==
  \/ \E t \in ReminderStartTimes : Book("c1", "s1", t)
  \/ \E id \in 1..MaxAppts : Confirm("o1", id)
  \/ update_fcm_token("c1")
  \/ check_and_send_reminders
  \/ Tick

SpecReminders == Init /\ [][NextReminders]_vars

\* one batch of the reminder sweep, the clock standing still: two clients book on the
\* first minute of a window, the business confirms, cancels and completes, one of the
\* clients registers a token and the sweep runs
BatchStartTimes == {ReminderLead(m) : m \in Milestones}

NextBatch ==
  \/ \E u \in Clients, t \in BatchStartTimes : Book(u, "s1", t)
  \/ \E id \in 1..MaxAppts : Confirm("o1", id)
  \/ \E id \in 1..MaxAppts : Cancel("o1", id, None)
  \/ \E id \in 1..MaxAppts : Complete("o1", id)
  \/ update_fcm_token("c1")
  \/ check_and_send_reminders

SpecBatch == Init /\ [][NextBatch]_vars

\* the reminder sweep on its beat, one appointment followed through its windows: a
\* client books it, the business confirms and cancels it, the client registers a token,
\* and every 5 minutes the sweep runs
NextBeat ==
  \/ appts = <<>> /\ \E t \in BeatStartTimes : Book("c1", "s1", t)
  \/ \E id \in 1..MaxAppts : Confirm("o1", id)
  \/ \E id \in 1..MaxAppts : Cancel("o1", id, None)
  \/ update_fcm_token("c1")
  \/ Beat

SpecBeat == Init /\ [][NextBeat]_vars /\ WF_vars(Beat)

\* the periodic tasks: a client books, the business confirms, profiles register a
\* token, the clock moves and the tasks run
NextTasks ==
  \/ \E t \in ReminderStartTimes : Book("c1", "s2", t)
  \/ \E id \in 1..MaxAppts : Confirm("o1", id)
  \/ \E u \in {"c1", "o1"} : update_fcm_token(u)
  \/ check_and_send_reminders
  \/ retry_failed_notifications
  \/ MarkMissed
  \/ Tick

SpecTasks == Init /\ [][NextTasks]_vars

\* the retry of failed notifications: a client books on the first minute of a window, the
\* business confirms, the sweep logs a failed reminder while the client has no token, a
\* profile registers a token, the retry task runs, and the clock reaches the last minute
\* of the retry window of a log written at 0 and the slot after it
RetryClockValues == {RetryWindowMinutes, RetryWindowMinutes + SlotMinutes}

TickRetry ==
  /\ \E t \in RetryClockValues : t > now /\ now' = t
  /\ UNCHANGED <<appts, business_status, dialect, reqs>>
  /\ UNCHANGED ws_vars
  /\ UNCHANGED notif_vars

NextRetry ==
  \/ \E t \in BatchStartTimes : Book("c1", "s1", t)
  \/ \E id \in 1..MaxAppts : Confirm("o1", id)
  \/ \E u \in {"c1", "o1"} : update_fcm_token(u)
  \/ check_and_send_reminders
  \/ retry_failed_notifications
  \/ TickRetry

SpecRetry == Init /\ [][NextRetry]_vars

\* the chat websocket: users open websockets, send frames and go away
NextWs ==
  \/ \E u \in WsUids : websocket_endpoint(u)
  \/ \E c \in 1..MaxConns, f \in Frames : receive_text(c, f)
  \/ \E c \in 1..MaxConns : ClientClose(c)
  \/ \E c \in 1..MaxConns : WebSocketDisconnect(c)

SpecWs == Init /\ [][NextWs]_vars

\* the scheduler: a client books, the business confirms, the client registers a token,
\* the clock moves, the tasks of the beat schedule run.  mark_missed_appointments is a
\* registered task that the beat schedule does not name and nothing in the repository
\* calls: it may run, nothing makes it run.
NextScheduler ==
  \/ \E t \in StartTimes : Book("c1", "s1", t)
  \/ \E id \in 1..MaxAppts : Confirm("o1", id)
  \/ update_fcm_token("c1")
  \/ check_and_send_reminders
  \/ retry_failed_notifications
  \/ cleanup_expired_appointments
  \/ MarkMissed
  \/ TickLate

\* the beat schedule: each of its tasks runs again and again, and time passes
BeatFairness ==
  /\ WF_vars(check_and_send_reminders)
  /\ WF_vars(retry_failed_notifications)
  /\ WF_vars(cleanup_expired_appointments)
  /\ WF_vars(TickLate)

SpecScheduler == Init /\ [][NextScheduler]_vars /\ BeatFairness

\* the confirmation codes: clients book, any code may be drawn, and the business cancels
NextCodes ==
  \/ \E b \in BookInputs, code \in Codes : BookCode(b[1], b[2], b[3], code)
  \/ \E id \in 1..MaxAppts : Cancel("o1", id, None)

SpecCodes == Init /\ [][NextCodes]_vars

\* book requests whose steps interleave
NextConc ==
  \/ \E r \in Requests, b \in BookInputs : BookQuery(r, b[1], b[2], b[3])
  \/ \E r \in Requests : BookCommit(r)

SpecConc == Init /\ [][NextConc]_vars

-----------------------------------------------------------------------------
(* Vocabulary of the properties *)

Terminal == {"completed", "cancelled", "no_show"}

Active(a) == a.status \in {"pending", "confirmed"}

\* the half-open intervals [s1, e1) and [s2, e2) overlap
Overlaps(s1, e1, s2, e2) == s1 < e2 /\ s2 < e1

RowsOverlap(a, b) == Overlaps(a.start, end_time(a), b.start, end_time(b))

\* candidate start times probed against the table: the request grid and its surroundings
ProbeTimes == {CancelLeadMinutes + SlotMinutes * k : k \in (0 - 3)..(MaxStartSlot + 3)}

\* some pending/confirmed row of the service's business overlaps the candidate [t, t + duration)
CandidateOverlaps(s, t) ==
  \E i \in Ids :
    /\ appts[i].business = ServiceBusiness[s]
    /\ Active(appts[i])
    /\ Overlaps(appts[i].start, end_time(appts[i]), t, t + ServiceDuration[s])

\* the candidate [t, t + duration) touches a pending/confirmed row of the business end to start
CandidateBackToBack(s, t) ==
  \E i \in Ids :
    /\ appts[i].business = ServiceBusiness[s]
    /\ Active(appts[i])
    /\ (end_time(appts[i]) = t \/ t + ServiceDuration[s] = appts[i].start)

\* the uid of the business that owns row i
OwnerOf(i) == CHOOSE u \in Users : BusinessOwnedBy(u) = appts[i].business

-----------------------------------------------------------------------------
(* C1: after any sequence of book, confirm, cancel and complete calls run   *)
(* one at a time, no two pending/confirmed appointments of the same         *)
(* business have overlapping intervals [start, start + duration).           *)
C1_NoDoubleBooking ==
  \A i, j \in Ids :
    (i < j /\ appts[i].business = appts[j].business /\ Active(appts[i]) /\ Active(appts[j]))
      => ~RowsOverlap(appts[i], appts[j])

C3_ConflictIffOverlap ==
  \A s \in Services, t \in ProbeTimes :
    business_status[ServiceBusiness[s]] = "active" =>
      ((BookCheck(appts, business_status, dialect, "c1", s, t) = "Time slot not available")
         <=> CandidateOverlaps(s, t))

C5_TerminalImmutable ==
  [][\A i \in Ids : appts[i].status \in Terminal => appts'[i].status = appts[i].status]_vars

(* C6: every change of an appointment's status is one of the transitions of *)
(* the state machine, and every new appointment starts in pending.          *)
AllowedTransitions ==
  {<<"pending", "confirmed">>, <<"pending", "cancelled">>,
   <<"confirmed", "in_progress">>, <<"confirmed", "completed">>,
   <<"confirmed", "cancelled">>, <<"confirmed", "rescheduled">>,
   <<"in_progress", "completed">>, <<"in_progress", "cancelled">>}
  \cup {<<st, "no_show">> : st \in AppointmentStatus \ Terminal}

C6_OnlyAllowedTransitions ==
  [][/\ \A i \in Ids :
          appts'[i].status # appts[i].status
            => <<appts[i].status, appts'[i].status>> \in AllowedTransitions
     /\ \A i \in 1..Len(appts') : i \notin Ids => appts'[i].status = "pending"]_vars

(* C7: confirm answers without error only for a pending appointment, and    *)
(* then the appointment becomes confirmed and nothing else changes; for an  *)
(* appointment in any other status it answers with an error and changes     *)
(* nothing.                                                                 *)
C7_ConfirmResponse ==
  \A u \in Users, id \in Ids :
    /\ ConfirmCheck(appts, u, id) = "ok" => appts[id].status = "pending"
    /\ appts[id].status # "pending" =>
         ConfirmCheck(appts, u, id) \in
           {"Only the business can confirm appointments",
            "Only pending appointments can be confirmed"}
    /\ (appts[id].status = "pending" /\ u = OwnerOf(id)) => ConfirmCheck(appts, u, id) = "ok"

C7_ConfirmStep ==
  appts' # appts =>
    \A u \in Users, id \in 1..MaxAppts :
      Confirm(u, id) =>
        /\ id \in Ids
        /\ appts[id].status = "pending"
        /\ appts' = [appts EXCEPT ![id].status = "confirmed"]

C7_ConfirmOnlyFromPending == []C7_ConfirmResponse /\ [][C7_ConfirmStep]_vars

\* confirm has acted on a row, and confirming that row again is answered with the error;
\* another row stands in a status other than pending and confirmed
C7_Witness ==
  \E i, j \in Ids :
    /\ i # j
    /\ appts[i].status = "confirmed"
    /\ ConfirmCheck(appts, OwnerOf(i), i) = "Only pending appointments can be confirmed"
    /\ appts[j].status \in {"cancelled", "completed", "rescheduled"}
    /\ ConfirmCheck(appts, OwnerOf(j), j) = "Only pending appointments can be confirmed"

(* C8: complete (the endpoint called by the business, or mark_completed)    *)
(* sets status completed and stamps completed_at when the appointment is    *)
(* confirmed or in_progress, and changes nothing from any other status.     *)
C8_CompleteStep(id) ==
  IF appts[id].status \in {"confirmed", "in_progress"}
  THEN appts'[id].status = "completed" /\ appts'[id].completed_at = now
  ELSE appts' = appts

C8_CompleteOnlyFromConfirmed ==
  [][\A id \in Ids :
       /\ Complete(OwnerOf(id), id) => C8_CompleteStep(id)
       /\ mark_completed(id) => C8_CompleteStep(id)]_vars

(* C9: a cancel request of the appointment's client for a non-terminal      *)
(* appointment that is still to start, less than 2 hours from now, is       *)
(* refused: the status of the appointment stays as it was.                  *)
C9_ClientCancelLeadTime ==
  [][\A u \in Clients, id \in Ids, reason \in ReasonInputs :
       (/\ Cancel(u, id, reason)
        /\ appts[id].client = ClientOf(u)
        /\ appts[id].status \notin Terminal
        /\ appts[id].start > now
        /\ appts[id].start - now < CancelLeadMinutes)
         => appts'[id].status = appts[id].status]_vars

(* C10: reschedule(A, t2) marks A rescheduled and adds exactly one row B,   *)
(* with B.original_appointment_id = A.id, B.rescheduled_from = A's old      *)
(* start, B.start = t2 and A's client, business, service, duration and      *)
(* price, every other row staying as it was; and a row that has a successor *)
(* is matched by no later conflict query.                                   *)
C10_RescheduleStep ==
  appts' # appts =>
    \A id \in Ids, t \in StartTimes :
      reschedule(id, t) =>
        /\ Len(appts') = Len(appts) + 1
        /\ appts'[id] = [appts[id] EXCEPT !.status = "rescheduled"]
        /\ \A k \in Ids \ {id} : appts'[k] = appts[k]
        /\ LET A == appts[id]
               B == appts'[Len(appts')]
           IN /\ B.original_appointment_id = id
              /\ B.rescheduled_from = A.start
              /\ B.start = t
              /\ B.client = A.client /\ B.business = A.business /\ B.service = A.service
              /\ B.duration = A.duration /\ B.price = A.price
              /\ B.status = "pending"

C10_SourceOutOfConflicts ==
  \A i, j \in Ids :
    appts[j].original_appointment_id = i =>
      \A s \in Services, t \in ProbeTimes :
        i \notin Conflicts(appts, dialect, ServiceBusiness[s], t, t + ServiceDuration[s])

C11_RescheduleChecksConflicts ==
  \A id \in Ids, t \in StartTimes :
    (/\ \A i, j \in Ids :
          (i < j /\ appts[i].business = appts[j].business
             /\ Active(appts[i]) /\ Active(appts[j])) => ~RowsOverlap(appts[i], appts[j])
     /\ \E k \in Ids \ {id} :
       /\ appts[k].business = appts[id].business
       /\ Active(appts[k])
       /\ Overlaps(appts[k].start, end_time(appts[k]), t, t + appts[id].duration))
      => RescheduleResult(appts, id, t) = appts

(* C12: reschedule changes nothing when can_be_rescheduled is false for the *)
(* source: it is completed, cancelled, no_show or in_progress, or it starts *)
(* within 2 hours from now.  Stated off the boundary of exactly 2 hours.    *)
C12_RescheduleRefused ==
  \A id \in Ids, t \in StartTimes :
    (~can_be_rescheduled(appts[id], now) /\ appts[id].start - now # CancelLeadMinutes)
      => RescheduleResult(appts, id, t) = appts

(* C14: book answers with an error and creates no appointment when the      *)
(* service's business is not active; a book that changes the table adds     *)
(* exactly one row, in status pending, for a service of an active business, *)
(* and leaves every existing row as it was.                                 *)
C14_BookResponse ==
  \A b \in BookInputs :
    (b[2] \in Services /\ business_status[ServiceBusiness[b[2]]] # "active")
      => BookCheck(appts, business_status, dialect, b[1], b[2], b[3]) # "ok"

C14_BookStep ==
  appts' # appts =>
    \A b \in BookInputs :
      Book(b[1], b[2], b[3]) =>
        /\ b[2] \in Services
        /\ business_status[ServiceBusiness[b[2]]] = "active"
        /\ Len(appts') = Len(appts) + 1
        /\ appts'[Len(appts')].status = "pending"
        /\ \A k \in Ids : appts'[k] = appts[k]

C14_BookGate == []C14_BookResponse /\ [][C14_BookStep]_vars

\* book has created a row for the active business, and a request of the same client for
\* the service of the business that is still pending is answered with the error
C14_Witness ==
  /\ business_status["b2"] = "pending"
  /\ \E i \in Ids : appts[i].business = "b1" /\ appts[i].status = "pending"
  /\ \A t \in StartTimes :
       BookCheck(appts, business_status, dialect, "c1", "s3", t)
         = "Business is not accepting appointments"

\* the start times open + 15k whose interval [t, t + duration) ends by close and overlaps
\* no pending/confirmed appointment of the business, in ascending order
RECURSIVE FreeSlots(_, _, _)
FreeSlots(s, t, close_time) ==
  IF t + ServiceDuration[s] > close_time THEN <<>>
  ELSE (IF CandidateOverlaps(s, t) THEN <<>> ELSE <<t>>)
         \o FreeSlots(s, t + SlotMinutes, close_time)

(* C17: for a business open on the requested weekday get_available_slots    *)
(* returns, in ascending order, exactly the start times open + 15k with     *)
(* t + service duration <= close whose interval overlaps no pending or      *)
(* confirmed appointment of the business, each appointment occupying        *)
(* [its start, its start + its stored duration).                            *)
C17_SlotsExact ==
  \A s \in Services :
    \A h \in BusinessHoursRows[ServiceBusiness[s]] :
      get_available_slots(appts, ServiceBusiness[s], s)
        = [error |-> None, slots |-> FreeSlots(s, h.open_time, h.close_time)]

TwoSweepCalls(i, m) ==
  Count(SweepResult(SweepResult(SweepState, fcm_token, now), fcm_token, now).calls, <<i, m>>)
    - Count(dispatch_calls, <<i, m>>)

(* C15 as stated: two runs of the reminder sweep over the same window, with *)
(* nothing changed in between, make exactly one dispatch call for every     *)
(* appointment and milestone the window selects.                            *)
C15_ExactlyOneDispatch ==
  \A i \in Ids, m \in Milestones :
    ReminderFilter(appts[i], m, now) => TwoSweepCalls(i, m) = 1

(* C15 as amended: two runs of the reminder sweep over the same window,     *)
(* with nothing changed in between, make exactly one dispatch call for an   *)
(* appointment and milestone the window selects when the client holds an    *)
(* FCM token, and none when the client holds no token or the window does    *)
(* not select the appointment.                                              *)
C15_OneDispatchWithToken ==
  \A i \in Ids, m \in Milestones :
    TwoSweepCalls(i, m) =
      IF ReminderFilter(appts[i], m, now) /\ fcm_token[appts[i].client] THEN 1 ELSE 0

\* a sweep has made its one call for an appointment that is still confirmed and inside the
\* window of the milestone, and a further sweep at the same clock changes nothing
C15_Witness ==
  \E i \in Ids, m \in Milestones :
    /\ Count(dispatch_calls, <<i, m>>) = 1
    /\ ReminderSent(appts[i], m)
    /\ appts[i].status = "confirmed"
    /\ appts[i].start >= now + ReminderLead(m)
    /\ appts[i].start <= now + ReminderLead(m) + ReminderWindowMinutes
    /\ SweepResult(SweepState, fcm_token, now) = SweepState

(* C16: a reminder flag of an appointment goes from false to true only in a *)
(* step in which FCM accepted the push of that appointment and milestone to *)
(* the client.                                                              *)
C16_FlagOnlyOnSuccess ==
  [][\A i \in Ids, m \in Milestones :
       (~ReminderSent(appts[i], m) /\ ReminderSent(appts'[i], m))
         => Count(pushes', <<"client", i, m>>) > Count(pushes, <<"client", i, m>>)]_vars

(* C19: across any interleaving of reminder sweeps and runs of the retry    *)
(* task, FCM accepts at most one reminder push to the client per            *)
(* appointment per milestone.                                               *)
C19_AtMostOnePush ==
  \A i \in 1..MaxAppts, m \in Milestones : Count(pushes, <<"client", i, m>>) <= 1

(* C20: the missed-appointment sweep changes an appointment only if it is   *)
(* confirmed and its end (start + duration) is more than 1 hour before now. *)
C20_MissedAfterEnd ==
  [][MarkMissed =>
       \A i \in Ids :
         appts'[i] # appts[i] =>
           /\ appts[i].status = "confirmed"
           /\ end_time(appts[i]) < now - MissedGraceMinutes]_vars

(* C21: every appointment that is still pending, confirmed or in_progress   *)
(* when more than the grace period of 1 hour has passed since its end is    *)
(* eventually cancelled or no_show, the tasks of the beat schedule running  *)
(* again and again.                                                         *)
C21_OverdueEventuallyClosed ==
  \A i \in 1..MaxAppts :
    (/\ i \in Ids
     /\ appts[i].status \in {"pending", "confirmed", "in_progress"}
     /\ end_time(appts[i]) + MissedGraceMinutes < now)
      ~> (i \in Ids /\ appts[i].status \in {"cancelled", "no_show"})

\* the sweep of this step makes a call of send_appointment_notification for appointment i
\* and milestone m
Dispatched(i, m) == Count(dispatch_calls', <<i, m>>) > Count(dispatch_calls, <<i, m>>)

(* C22 as stated: a sweep at time now dispatches the reminder of a milestone *)
(* only for appointments that are confirmed, have the flag of the milestone *)
(* unset and start inside the half-open window                              *)
(* [now + lead, now + lead + 30m).                                          *)
C22_DispatchHalfOpenWindow ==
  [][dispatch_calls' # dispatch_calls =>
       (check_and_send_reminders =>
          \A i \in Ids, m \in Milestones :
            Dispatched(i, m) =>
              /\ appts[i].status = "confirmed"
              /\ ~ReminderSent(appts[i], m)
              /\ appts[i].start >= now + ReminderLead(m)
              /\ appts[i].start < now + ReminderLead(m) + ReminderWindowMinutes)]_vars

(* C22 as amended: a sweep at time now dispatches the reminder of a         *)
(* milestone only for appointments that are confirmed, have the flag of the *)
(* milestone unset and start inside the closed window                       *)
(* [now + lead, now + lead + 30m].                                          *)
C22_DispatchClosedWindow ==
  [][dispatch_calls' # dispatch_calls =>
       (check_and_send_reminders =>
          \A i \in Ids, m \in Milestones :
            Dispatched(i, m) =>
              /\ appts[i].status = "confirmed"
              /\ ~ReminderSent(appts[i], m)
              /\ appts[i].start >= now + ReminderLead(m)
              /\ appts[i].start <= now + ReminderLead(m) + ReminderWindowMinutes)]_vars

\* a sweep has dispatched the reminder of an appointment that started exactly 30 minutes
\* after the first minute of the window, and another appointment, still pending, has
\* had no call
C22_Witness ==
  \E i, j \in Ids, m \in Milestones :
    /\ Count(dispatch_calls, <<i, m>>) = 1
    /\ \E k \in 1..Len(notification_logs) :
         /\ notification_logs[k].appointment = i
         /\ notification_logs[k].event = m
         /\ notification_logs[k].created_at + ReminderLead(m) + ReminderWindowMinutes
              = appts[i].start
    /\ j # i
    /\ appts[j].status = "pending"
    /\ Count(dispatch_calls, <<j, m>>) = 0

\* the notification_logs rows of appointment i and milestone m: one for every sweep that
\* selected the appointment for the milestone
Selections(i, m) ==
  {k \in 1..Len(notification_logs) :
     notification_logs[k].appointment = i /\ notification_logs[k].event = m}

(* C23: with the sweep on its beat of 5 minutes, an appointment that is      *)
(* confirmed with the flag of a milestone unset when it is about to enter    *)
(* the window of the milestone (the next sweep is the first that can select  *)
(* it) is selected for the milestone by some sweep, unless it stops being    *)
(* confirmed.                                                                *)
C23_WindowNotSkipped ==
  \A i \in 1..MaxAppts, m \in Milestones :
    (/\ i \in Ids
     /\ appts[i].status = "confirmed"
     /\ ~ReminderSent(appts[i], m)
     /\ appts[i].start - now >= ReminderLead(m) + ReminderWindowMinutes
     /\ appts[i].start - now < ReminderLead(m) + ReminderWindowMinutes + SweepCadenceMinutes)
      ~> (i \in Ids /\ (appts[i].status # "confirmed" \/ Selections(i, m) # {}))

\* an appointment has passed through the window of a milestone confirmed and with the flag
\* unset, and every sweep of the 30 minutes has selected it
C23_Witness ==
  \E i \in Ids, m \in Milestones :
    /\ appts[i].status = "confirmed"
    /\ ~ReminderSent(appts[i], m)
    /\ appts[i].start - now < ReminderLead(m)
    /\ Cardinality(Selections(i, m)) >= ReminderWindowMinutes \div SweepCadenceMinutes

\* every call returns but the one for appointment j and milestone mj, which ends as kind
OneOutcome(j, mj, kind) ==
  [p \in (1..MaxAppts) \X Milestones |-> IF p = <<j, mj>> THEN kind ELSE "returns"]

\* the notification_logs rows of logs for appointment i and milestone m
LogsOf(logs, i, m) == {k \in 1..Len(logs) : logs[k].appointment = i /\ logs[k].event = m}

(* C24: within one sweep, whatever the end of the call for one appointment   *)
(* and milestone (it returns, sent or failed; the dispatch raises; the body  *)
(* raises), every other appointment the two queries select is attempted, one *)
(* log row each, and the rows the sweep commits hold the flag of every one   *)
(* of them whose client has a token and of no other.                         *)
C24_BatchNotAborted ==
  \A j \in Ids, mj \in Milestones, kind \in Outcomes :
    LET r == SweepResultOutcome(SweepState, fcm_token, now, OneOutcome(j, mj, kind))
    IN \A i \in Ids, m \in Milestones :
         (<<i, m>> # <<j, mj>> /\ ReminderFilter(appts[i], m, now))
           => /\ Cardinality(LogsOf(r.logs, i, m))
                   = Cardinality(LogsOf(notification_logs, i, m)) + 1
              /\ ReminderSent(r.rows[i], m) = fcm_token[appts[i].client]

\* one sweep has failed for an appointment of the client without a token and, after
\* that, has sent the reminder of an appointment of the client with a token and set its
\* flag; both are still confirmed
C24_Witness ==
  \E i, j \in Ids, mi, mj \in Milestones, k \in 1..MaxLogs :
    /\ k + 1 <= Len(notification_logs)
    /\ notification_logs[k].appointment = i /\ notification_logs[k].event = mi
    /\ notification_logs[k].status = "failed"
    /\ notification_logs[k + 1].appointment = j /\ notification_logs[k + 1].event = mj
    /\ notification_logs[k + 1].status = "sent"
    /\ Len(notification_logs) = 2
    /\ appts[i].status = "confirmed" /\ appts[j].status = "confirmed"
    /\ ~ReminderSent(appts[i], mi)
    /\ ReminderSent(appts[j], mj)
    /\ ~fcm_token[appts[i].client] /\ fcm_token[appts[j].client]

(* C25: book never fails because of a confirmation code: a request that     *)
(* passes the checks of book creates its appointment whatever code is drawn, *)
(* and the codes stored are pairwise distinct.                               *)
C25_NoCollisionFailure ==
  /\ \A b \in BookInputs, code \in Codes :
       BookCheck(appts, business_status, dialect, b[1], b[2], b[3]) = "ok"
         => BookCodeCheck(appts, business_status, dialect, b[1], b[2], b[3], code) = "ok"
  /\ \A i, j \in Ids :
       (i < j /\ appts[i].confirmation_code # NoCode)
         => appts[i].confirmation_code # appts[j].confirmation_code

\* row a with the reminder flags of row b
WithFlagsOf(a, b) ==
  [a EXCEPT !.reminder_24h_sent = b.reminder_24h_sent,
            !.reminder_2h_sent = b.reminder_2h_sent]

C28_RetryBound ==
  \A k \in 1..Len(notification_logs) : notification_logs[k].retry_count <= MaxRetries

\* a step changes an existing log row only by one more attempt on a row that was failed
\* and below its allowance, and FCM accepts at most one message per such row
C28_RetryStep ==
  (notification_logs' # notification_logs \/ pushes' # pushes) =>
    /\ Len(notification_logs') >= Len(notification_logs)
    /\ \A k \in 1..Len(notification_logs) :
         notification_logs'[k] # notification_logs[k] =>
           /\ notification_logs[k].status = "failed"
           /\ notification_logs[k].retry_count < MaxRetries
           /\ notification_logs'[k].retry_count = notification_logs[k].retry_count + 1
    /\ Len(pushes') - Len(pushes)
         <= Cardinality({k \in 1..Len(notification_logs) :
                           notification_logs'[k] # notification_logs[k]})

(* C28: after any number of runs of retry_failed_notifications every        *)
(* notification log has retry_count <= max_retries; each run makes one      *)
(* attempt, counted in retry_count, on rows that are failed and below       *)
(* max_retries only, so a failed push is re-sent at most max_retries times  *)
(* and a row whose status has become sent is never re-sent.                 *)
C28_RetryAllowance == []C28_RetryBound /\ [][C28_RetryStep]_vars

\* one log has used its whole allowance and is still failed, another was sent by a retry
C28_Witness ==
  \E k, j \in 1..Len(notification_logs) :
    /\ notification_logs[k].status = "failed"
    /\ notification_logs[k].retry_count = MaxRetries
    /\ notification_logs[j].status = "sent"
    /\ notification_logs[j].retry_count > 0

\* the rooms of a user and the members of a room, a missing key read as no entry
RoomsOfUser(u) == Get(connection_manager.user_rooms, u)
MembersOfRoom(r) == Get(connection_manager.room_members, r)

(* C29: after any sequence of connect, join_room, leave_room, disconnect    *)
(* and sends on the ConnectionManager, failed sends that disconnect         *)
(* included, a user is in room_members[r] if and only if r is in            *)
(* user_rooms[user], and room_members holds no room without members.        *)
C29_MembershipMapsAgree ==
  /\ \A u \in WsUids \cup DOMAIN connection_manager.user_rooms,
        r \in RoomIds \cup DOMAIN connection_manager.room_members :
        u \in MembersOfRoom(r) <=> r \in RoomsOfUser(u)
  /\ \A r \in DOMAIN connection_manager.room_members :
        connection_manager.room_members[r] # {}

\* a send to a websocket whose client had gone has disconnected its user, the handler of
\* that websocket still waiting in receive_text, while a room keeps another member
C29_Witness ==
  \E c \in 1..Len(websockets) :
    /\ websockets[c].phase = "listening"
    /\ websockets[c].socket = "client_closed"
    /\ \A d \in 1..Len(websockets) : d # c => websockets[d].uid # websockets[c].uid
    /\ websockets[c].uid \notin DOMAIN connection_manager.active_connections
    /\ websockets[c].uid \notin DOMAIN connection_manager.user_rooms
    /\ \E r \in DOMAIN connection_manager.room_members :
         connection_manager.room_members[r] # {}

\* websocket c is the one active_connections holds for its uid
Registered(cm, ws, c) ==
  /\ ws[c].uid \in DOMAIN cm.active_connections
  /\ cm.active_connections[ws[c].uid] = c

\* no websocket whose handler has ended is registered
C30_EndedNotRegistered ==
  \A c \in 1..Len(websockets) :
    websockets[c].phase = "ended" => ~Registered(connection_manager, websockets, c)

\* a step in which the handler of websocket c ends leaves registered every websocket
\* opened after c for the same uid that is registered and whose client is still there
C30_OlderKeepsNewer ==
  \A c, d \in 1..Len(websockets) :
    (/\ websockets[c].phase = "listening" /\ websockets'[c].phase = "ended"
     /\ c < d /\ websockets[d].uid = websockets[c].uid
     /\ websockets[d].phase = "listening" /\ websockets[d].socket = "open"
     /\ Registered(connection_manager, websockets, d))
      => Registered(connection_manager', websockets', d)

(* C30: once the websocket handler of a connection has ended, by a client   *)
(* disconnect, an error or the rejection of an unknown user, the connection *)
(* is no longer registered in active_connections, and the end of an older   *)
(* connection never removes a newer live connection of the same user id.    *)
C30_EndedHandlerDeregistered == []C30_EndedNotRegistered /\ [][C30_OlderKeepsNewer]_vars

====
